---- MODULE Spec2Model ----
(***************************************************************************)
(* The pump decision engine of src/pyscripts/logiview_logo8.py (class      *)
(* Algorithm, HEAD side of the file): Rule One (emergency overheat, "Rule  *)
(* E"), Rule Two (normal operation, "Rule N") and the Boiler OFF algorithm *)
(* ("Rule B"), with the per-pump dwell counters.  One action is one call   *)
(* of Algorithm.execute_algorithm(temp, status).                           *)
(*                                                                         *)
(* Temperatures are integers in centi-degrees; an Optional value is a      *)
(* sequence: << >> is Python's None, <<v>> is the value v.                 *)
(***************************************************************************)
EXTENDS Integers, Sequences, FiniteSets, TLC

\* ------------------------------------------------------------ constants
BOILER_OVERHEAT_THRESHOLD == 8700
BOILER_SAFE_THRESHOLD == 8500
CRITICAL_TANK_TEMP == 7000
RETURNS_TEMP_ON_THRESHOLD == 6000
RETURNS_TEMP_OFF_THRESHOLD == 5800
TEMP_DIFF_ON_THRESHOLD == 500
TEMP_DIFF_OFF_THRESHOLD == 300
\* T1BOT >= 5800 in apply_rule_two, and (T1BOT - T3TOP) >= 200 in
\* boiler_off_algorithm, are literals of the source.
RULE_TWO_T1BOT_MIN == 5800
T1BOT_OVER_T3TOP_LIMIT == 200

\* The dwell floors, in calls of update_pump_counter.  The source sets 200
\* and 100; the rules only compare the counters against them, so the model
\* scales them down and keeps their order (on-floor above off-floor >= 2).
PUMP_MIN_ON_TIME == 3
PUMP_MIN_OFF_TIME == 2
\* execute_algorithm is taken only while every dwell counter is below MaxCount.
MaxCount == 4

\* SPECIFIC_HEAT_CAPACITY = 1.16 Wh/(L*C), in hundredths; averages divide the
\* sum of three centi-degree readings by 300.0.  Energies are kept as exact
\* numerators over AVG_DIVISOR * 100.
SPECIFIC_HEAT_CAPACITY_x100 == 116
AVG_DIVISOR == 300
ENERGY_DIFF_START == 500
ENERGY_DIFF_STOP == 300
VOLUME_TANK1 == 500
VOLUME_TANK2 == 750

\* ------------------------------------------------------------ Optional
None == << >>
Some(v) == <<v>>
val(x) == x[1]
\* Python truthiness of an Optional[int]: None and 0 are false.
truthy(x) == x # None /\ x[1] # 0
\* Python truthiness of an Optional[bool]: None and False are false.
is_on(x) == x # None /\ x[1]

\* ------------------------------------------------------------ state
VARIABLES
  alg,    \* the Algorithm instance: pump states, dwell counters, rule flags
  trace,  \* what the last execute_algorithm did: set_transfer_pump calls, rules run;
          \* and the calls since construction, up to PUMP_MIN_OFF_TIME
  hist,   \* per pump, the calls of execute_algorithm since the last one that wrote its bit
  calc,   \* an energy comparison on its own: its inputs and, once computed, the sign of diff
  loop,   \* MainClass: self.temp and self.status, and what the last cycle's reads did
  ttt     \* logiview_ttt.py: main_loop's locals, the data socket, and what the last
          \* iteration did

vars == <<alg, trace, hist, calc, loop, ttt>>

Pumps == { "PT1T2", "PT2T1" }

\* Algorithm.__init__: pumps off, counters zero, flags inactive.  Its two
\* set_transfer_pump(.., False) calls leave these values whether or not the
\* PLC write succeeds.
AlgorithmInit ==
  [ pump_state_PT1T2   |-> FALSE,
    pump_runtime_PT1T2 |-> 0,
    pump_offtime_PT1T2 |-> 0,
    pump_state_PT2T1   |-> FALSE,
    pump_runtime_PT2T1 |-> 0,
    pump_offtime_PT2T1 |-> 0,
    rule_one_active    |-> FALSE,
    rule_two_active    |-> FALSE,
    boiler_off_active  |-> FALSE ]

\* A call in progress: the instance and the log of the call (the
\* set_transfer_pump calls made and the rules evaluated, in order).
Begin(a) ==
  [ a |-> a, cmds |-> << >>, rules |-> << >> ]

\* A PLC write either returns or raises, so an operation that writes has a set
\* of outcomes; UNION { F(x) : x \in ms } continues each outcome of ms with F.

\* ------------------------------------------------------------ pump commands
\* The instance after a write_bit that returned: the state is recorded and the
\* counter of the new state is zeroed.
pump_written(m, pump_name, state) ==
  IF pump_name = "PT1T2"
    THEN [m EXCEPT !.a.pump_state_PT1T2 = state,
                   !.a.pump_runtime_PT1T2 = IF state THEN 0 ELSE @,
                   !.a.pump_offtime_PT1T2 = IF state THEN @ ELSE 0]
  ELSE IF pump_name = "PT2T1"
    THEN [m EXCEPT !.a.pump_state_PT2T1 = state,
                   !.a.pump_runtime_PT2T1 = IF state THEN 0 ELSE @,
                   !.a.pump_offtime_PT2T1 = IF state THEN @ ELSE 0]
  ELSE m

\* set_transfer_pump: write the bit and record the state; a write that raises
\* is logged and changes nothing.  `by` names the caller, as the log line
\* that follows the call does.
set_transfer_pump(m, pump_name, state, by) ==
  LET cmd(ok) == [pump |-> pump_name, state |-> state, by |-> by, ok |-> ok]
  IN { pump_written([m EXCEPT !.cmds = Append(@, cmd(TRUE))], pump_name, state),
       [m EXCEPT !.cmds = Append(@, cmd(FALSE))] }

\* update_pump_counter that leaves the counter of the other state alone.
update_pump_counter_add_only(m, pump_name) ==
  IF pump_name = "PT1T2"
    THEN IF m.a.pump_state_PT1T2
           THEN [m EXCEPT !.a.pump_runtime_PT1T2 = @ + 1]
           ELSE [m EXCEPT !.a.pump_offtime_PT1T2 = @ + 1]
  ELSE IF pump_name = "PT2T1"
    THEN IF m.a.pump_state_PT2T1
           THEN [m EXCEPT !.a.pump_runtime_PT2T1 = @ + 1]
           ELSE [m EXCEPT !.a.pump_offtime_PT2T1 = @ + 1]
  ELSE m

update_pump_counter(m, pump_name) ==
  IF pump_name = "PT1T2"
    THEN IF m.a.pump_state_PT1T2
           THEN [m EXCEPT !.a.pump_runtime_PT1T2 = @ + 1, !.a.pump_offtime_PT1T2 = 0]
           ELSE [m EXCEPT !.a.pump_offtime_PT1T2 = @ + 1, !.a.pump_runtime_PT1T2 = 0]
  ELSE IF pump_name = "PT2T1"
    THEN IF m.a.pump_state_PT2T1
           THEN [m EXCEPT !.a.pump_runtime_PT2T1 = @ + 1, !.a.pump_offtime_PT2T1 = 0]
           ELSE [m EXCEPT !.a.pump_offtime_PT2T1 = @ + 1, !.a.pump_runtime_PT2T1 = 0]
  ELSE m

\* ------------------------------------------------------------ Rule One
\* Rule One triggered by the boiler and tank temperatures only.
emergency_condition_without_tret(temp) ==
  \/ (truthy(temp.TBTOP) /\ val(temp.TBTOP) > BOILER_OVERHEAT_THRESHOLD)
  \/ (truthy(temp.T1BOT) /\ val(temp.T1BOT) > CRITICAL_TANK_TEMP)

emergency_condition(temp) ==
  \/ (truthy(temp.TBTOP) /\ val(temp.TBTOP) > BOILER_OVERHEAT_THRESHOLD)
  \/ (truthy(temp.T1BOT) /\ val(temp.T1BOT) > CRITICAL_TANK_TEMP)
  \/ (truthy(temp.TRET) /\ val(temp.TRET) > RETURNS_TEMP_ON_THRESHOLD)

\* Rule One cleared on the return temperature alone.
conditions_cleared_tret_only(temp) ==
  temp.TRET # None /\ val(temp.TRET) <= RETURNS_TEMP_OFF_THRESHOLD

conditions_cleared(temp) ==
  /\ temp.TRET # None /\ val(temp.TRET) <= RETURNS_TEMP_OFF_THRESHOLD
  /\ temp.TBTOP # None /\ val(temp.TBTOP) < BOILER_SAFE_THRESHOLD

apply_rule_one(m0, temp, status) ==
  LET m == [m0 EXCEPT !.rules = Append(@, "E")]
      ms == IF emergency_condition(temp)
              THEN LET ma == [m EXCEPT !.a.rule_one_active = TRUE]
                   IN IF ~is_on(status.PT1T2)
                        THEN set_transfer_pump(ma, "PT1T2", TRUE, "E")
                        ELSE { ma }
            ELSE IF m.a.rule_one_active
                      /\ conditions_cleared(temp)
                      /\ m.a.pump_runtime_PT1T2 >= PUMP_MIN_ON_TIME
              THEN { [x EXCEPT !.a.rule_one_active = FALSE]
                       : x \in set_transfer_pump(m, "PT1T2", FALSE, "E") }
            ELSE { m }
  IN { update_pump_counter(x, "PT1T2") : x \in ms }

\* ------------------------------------------------------------ Rule Two
\* The start condition with an absent T2TOP compared as zero.
pump_start_missing_as_zero(temp) ==
  IF truthy(temp.TRET) /\ val(temp.TRET) > RETURNS_TEMP_ON_THRESHOLD
    THEN TRUE
  ELSE IF temp.T1BOT # None /\ temp.T1MID # None
    THEN /\ val(temp.T1BOT) >= RULE_TWO_T1BOT_MIN
         /\ val(temp.T1MID) > (IF temp.T2TOP = None THEN 0 ELSE val(temp.T2TOP))
                                 + TEMP_DIFF_ON_THRESHOLD
  ELSE FALSE

pump_start(temp) ==
  IF truthy(temp.TRET) /\ val(temp.TRET) > RETURNS_TEMP_ON_THRESHOLD
    THEN TRUE
  ELSE IF temp.T1BOT # None /\ temp.T1MID # None /\ temp.T2TOP # None
    THEN /\ val(temp.T1BOT) >= RULE_TWO_T1BOT_MIN
         /\ val(temp.T1MID) > val(temp.T2TOP) + TEMP_DIFF_ON_THRESHOLD
  ELSE FALSE

pump_stop(temp) ==
  IF temp.T1BOT # None /\ temp.T3BOT # None
    THEN val(temp.T1BOT) - val(temp.T3BOT) <= TEMP_DIFF_OFF_THRESHOLD
    ELSE FALSE

\* The start without the minimum-off gate.
rule_two_start_ungated(m, temp, status) ==
  IF pump_start(temp) /\ ~is_on(status.PT1T2)
    THEN { [x EXCEPT !.a.rule_two_active = TRUE]
             : x \in set_transfer_pump(m, "PT1T2", TRUE, "N") }
    ELSE { m }

\* The start held back while the stop condition is true.
rule_two_start_unless_stop(m, temp, status) ==
  IF pump_start(temp) /\ ~pump_stop(temp) /\ ~is_on(status.PT1T2)
       /\ m.a.pump_offtime_PT1T2 >= PUMP_MIN_OFF_TIME
    THEN { [x EXCEPT !.a.rule_two_active = TRUE]
             : x \in set_transfer_pump(m, "PT1T2", TRUE, "N") }
    ELSE { m }

\* "if pump_start and not status.PT1T2 and offtime >= PUMP_MIN_OFF_TIME"
rule_two_start(m, temp, status) ==
  IF pump_start(temp) /\ ~is_on(status.PT1T2)
       /\ m.a.pump_offtime_PT1T2 >= PUMP_MIN_OFF_TIME
    THEN { [x EXCEPT !.a.rule_two_active = TRUE]
             : x \in set_transfer_pump(m, "PT1T2", TRUE, "N") }
    ELSE { m }

\* "if pump_stop and status.PT1T2 and runtime >= PUMP_MIN_ON_TIME"
rule_two_stop(m, temp, status) ==
  IF pump_stop(temp) /\ is_on(status.PT1T2)
       /\ m.a.pump_runtime_PT1T2 >= PUMP_MIN_ON_TIME
    THEN set_transfer_pump(m, "PT1T2", FALSE, "N")
    ELSE { m }

\* "if self.pump_state_PT1T2 and not self.rule_one_active"
rule_two_mark(m) ==
  IF m.a.pump_state_PT1T2 /\ ~m.a.rule_one_active
    THEN [m EXCEPT !.a.rule_two_active = TRUE]
    ELSE m

apply_rule_two(m0, temp, status) ==
  LET m == [m0 EXCEPT !.rules = Append(@, "N"), !.a.rule_two_active = FALSE]
      started == rule_two_start(m, temp, status)
      stopped == UNION { rule_two_stop(x, temp, status) : x \in started }
  IN { update_pump_counter(rule_two_mark(x), "PT1T2") : x \in stopped }

\* ------------------------------------------------------------ Boiler ON
\* Rule Two applied whether or not Rule One is active.
boiler_on_algorithm_both(m, temp, status) ==
  LET forced == IF m.a.pump_state_PT2T1
                  THEN set_transfer_pump(m, "PT2T1", FALSE, "ON")
                  ELSE { m }
      one == UNION { apply_rule_one(x, temp, status) : x \in forced }
  IN UNION { apply_rule_two(x, temp, status) : x \in one }

\* Rule One and Rule Two without the forced off of PT2T1.
boiler_on_algorithm_keep(m, temp, status) ==
  LET one == apply_rule_one(m, temp, status)
  IN UNION { IF ~x.a.rule_one_active
                 THEN apply_rule_two(x, temp, status)
                 ELSE { x } : x \in one }

boiler_on_algorithm(m, temp, status) ==
  LET forced == IF m.a.pump_state_PT2T1
                  THEN set_transfer_pump(m, "PT2T1", FALSE, "ON")
                  ELSE { m }
      one == UNION { apply_rule_one(x, temp, status) : x \in forced }
  IN UNION { IF ~x.a.rule_one_active
                 THEN apply_rule_two(x, temp, status)
                 ELSE { x } : x \in one }

\* ------------------------------------------------------------ Boiler OFF
has_tank1(temp) == temp.T1TOP # None /\ temp.T1MID # None /\ temp.T1BOT # None
has_tank2(temp) == temp.T2TOP # None /\ temp.T2MID # None /\ temp.T2BOT # None

\* avg_temp = sum / 300.0, kept as the sum (a numerator over AVG_DIVISOR).
avg_temp_t1(temp) == val(temp.T1TOP) + val(temp.T1MID) + val(temp.T1BOT)
avg_temp_t2(temp) == val(temp.T2TOP) + val(temp.T2MID) + val(temp.T2BOT)

\* energy = volume * avg_temp * SPECIFIC_HEAT_CAPACITY, a numerator over
\* AVG_DIVISOR * 100.
energy_tank1(temp) == VOLUME_TANK1 * avg_temp_t1(temp) * SPECIFIC_HEAT_CAPACITY_x100
energy_tank2(temp) == VOLUME_TANK2 * avg_temp_t2(temp) * SPECIFIC_HEAT_CAPACITY_x100
scaled_energy_t2(temp) == (energy_tank2(temp) \div VOLUME_TANK2) * VOLUME_TANK1
diff(temp) == scaled_energy_t2(temp) - energy_tank1(temp)
\* a threshold in Wh as a numerator over AVG_DIVISOR * 100
Wh(x) == x * AVG_DIVISOR * 100

\* The decision without hysteresis: one threshold whatever the pump state.
should_transfer_start_only(m, temp) ==
  has_tank1(temp) /\ has_tank2(temp) /\ diff(temp) > Wh(ENERGY_DIFF_START)
should_transfer_stop_only(m, temp) ==
  has_tank1(temp) /\ has_tank2(temp) /\ diff(temp) > Wh(ENERGY_DIFF_STOP)

should_transfer_tank2_to_tank1(m, temp) ==
  IF ~has_tank1(temp) THEN FALSE
  ELSE IF ~has_tank2(temp) THEN FALSE
  ELSE IF ~m.a.pump_state_PT2T1
    THEN diff(temp) > Wh(ENERGY_DIFF_START)
    ELSE diff(temp) > Wh(ENERGY_DIFF_STOP)

\* "if should_transfer: ... else: ..." of boiler_off_algorithm
energy_rule(m, temp, status) ==
  IF should_transfer_tank2_to_tank1(m, temp)
    THEN IF ~is_on(status.PT2T1) /\ m.a.pump_offtime_PT2T1 >= PUMP_MIN_OFF_TIME
           THEN set_transfer_pump(m, "PT2T1", TRUE, "B")
           ELSE { m }
    ELSE IF is_on(status.PT2T1) /\ m.a.pump_runtime_PT2T1 >= PUMP_MIN_ON_TIME
           THEN set_transfer_pump(m, "PT2T1", FALSE, "B")
           ELSE { m }

\* The T1BOT - T3TOP check with a strict comparison.
t1bot_over_t3top_strict(temp) ==
  /\ temp.T1BOT # None /\ temp.T3TOP # None
  /\ val(temp.T1BOT) - val(temp.T3TOP) > T1BOT_OVER_T3TOP_LIMIT

t1bot_over_t3top(temp) ==
  /\ temp.T1BOT # None /\ temp.T3TOP # None
  /\ val(temp.T1BOT) - val(temp.T3TOP) >= T1BOT_OVER_T3TOP_LIMIT

\* "Additional safety check: if T1BOT exceeds T3TOP by at least 2 C, stop PT2T1."
safety_check(m, temp, status) ==
  IF t1bot_over_t3top(temp) /\ is_on(status.PT2T1)
       /\ m.a.pump_runtime_PT2T1 >= PUMP_MIN_ON_TIME
    THEN set_transfer_pump(m, "PT2T1", FALSE, "OVERRIDE")
    ELSE { m }

\* The Boiler OFF algorithm with PT1T2 switched off only after its minimum
\* on-time.
boiler_off_algorithm_dwell(m0, temp, status) ==
  LET m == [m0 EXCEPT !.rules = Append(@, "B"),
                      !.a.rule_one_active = FALSE, !.a.rule_two_active = FALSE]
      forced == IF m.a.pump_runtime_PT1T2 >= PUMP_MIN_ON_TIME \/ ~m.a.pump_state_PT1T2
                  THEN set_transfer_pump(m, "PT1T2", FALSE, "OFF")
                  ELSE { m }
      ruled == UNION { energy_rule(x, temp, status) : x \in forced }
      counted == { update_pump_counter(x, "PT2T1") : x \in ruled }
      checked == UNION { safety_check(x, temp, status) : x \in counted }
  IN { [x EXCEPT !.a.boiler_off_active = TRUE] : x \in checked }

\* The Boiler OFF algorithm with PT1T2 switched off only when its status bit
\* reads on.
boiler_off_algorithm_observed(m0, temp, status) ==
  LET m == [m0 EXCEPT !.rules = Append(@, "B"),
                      !.a.rule_one_active = FALSE, !.a.rule_two_active = FALSE]
      forced == IF is_on(status.PT1T2)
                  THEN set_transfer_pump(m, "PT1T2", FALSE, "OFF")
                  ELSE { m }
      ruled == UNION { energy_rule(x, temp, status) : x \in forced }
      counted == { update_pump_counter(x, "PT2T1") : x \in ruled }
      checked == UNION { safety_check(x, temp, status) : x \in counted }
  IN { [x EXCEPT !.a.boiler_off_active = TRUE] : x \in checked }

boiler_off_algorithm(m0, temp, status) ==
  LET m == [m0 EXCEPT !.rules = Append(@, "B"),
                      !.a.rule_one_active = FALSE, !.a.rule_two_active = FALSE]
      forced == set_transfer_pump(m, "PT1T2", FALSE, "OFF")
      ruled == UNION { energy_rule(x, temp, status) : x \in forced }
      counted == { update_pump_counter(x, "PT2T1") : x \in ruled }
      checked == UNION { safety_check(x, temp, status) : x \in counted }
  IN { [x EXCEPT !.a.boiler_off_active = TRUE] : x \in checked }

\* ------------------------------------------------------------ the step
\* execute_algorithm: dispatch on status.BP.  update_boiler_off_observed and
\* the rules[..] dictionaries only feed the dashboard and change no state
\* that a rule reads.  The result is the set of outcomes of the call, one
\* for each way its PLC writes can return or raise.
execute_algorithm(m, temp, status) ==
  IF is_on(status.BP)
    THEN { [x EXCEPT !.a.boiler_off_active = FALSE]
             : x \in boiler_on_algorithm(m, temp, status) }
    ELSE { [x EXCEPT !.a.boiler_off_active = TRUE]
             : x \in boiler_off_algorithm(m, temp, status) }

\* ------------------------------------------------------------ exceptions
\* A comparison or an arithmetic operation that reads None raises TypeError,
\* which execute_algorithm does not catch.  For each piece of code, whether
\* one of its operations on readings is reached with None among the values it
\* reads.
Raises(reached, operands) == reached /\ None \in operands

\* lines 765-767 (short-circuit `and`/`or`) and 785-786
rule_one_raises(a, temp) ==
  LET tbtop == truthy(temp.TBTOP) /\ val(temp.TBTOP) > BOILER_OVERHEAT_THRESHOLD
      t1bot == truthy(temp.T1BOT) /\ val(temp.T1BOT) > CRITICAL_TANK_TEMP
      clearing == ~emergency_condition(temp) /\ a.rule_one_active
  IN \/ Raises(truthy(temp.TBTOP), { temp.TBTOP })
     \/ Raises(~tbtop /\ truthy(temp.T1BOT), { temp.T1BOT })
     \/ Raises(~tbtop /\ ~t1bot /\ truthy(temp.TRET), { temp.TRET })
     \/ Raises(clearing /\ temp.TRET # None, { temp.TRET })
     \/ Raises(clearing /\ temp.TRET # None
                 /\ val(temp.TRET) <= RETURNS_TEMP_OFF_THRESHOLD /\ temp.TBTOP # None,
               { temp.TBTOP })

\* rule_one_active when apply_rule_one returns
rule_one_after(a, temp) ==
  \/ emergency_condition(temp)
  \/ a.rule_one_active
       /\ ~(conditions_cleared(temp) /\ a.pump_runtime_PT1T2 >= PUMP_MIN_ON_TIME)

\* lines 823-826 and 851-852
rule_two_raises(temp) ==
  LET by_tret == truthy(temp.TRET) /\ val(temp.TRET) > RETURNS_TEMP_ON_THRESHOLD
      known == temp.T1BOT # None /\ temp.T1MID # None /\ temp.T2TOP # None
  IN \/ Raises(truthy(temp.TRET), { temp.TRET })
     \/ Raises(~by_tret /\ known, { temp.T1BOT })
     \/ Raises(~by_tret /\ known /\ val(temp.T1BOT) >= RULE_TWO_T1BOT_MIN,
               { temp.T1MID, temp.T2TOP })
     \/ Raises(temp.T1BOT # None /\ temp.T3BOT # None, { temp.T1BOT, temp.T3BOT })

\* lines 978-991
should_transfer_raises(temp) ==
  \/ Raises(has_tank1(temp), { temp.T1TOP, temp.T1MID, temp.T1BOT })
  \/ Raises(has_tank1(temp) /\ has_tank2(temp), { temp.T2TOP, temp.T2MID, temp.T2BOT })

\* The safety check subtracting without its `is not None` test.
safety_check_raises_unguarded(temp) ==
  Raises(TRUE, { temp.T1BOT, temp.T3TOP })

\* lines 964-965
safety_check_raises(temp) ==
  Raises(temp.T1BOT # None /\ temp.T3TOP # None, { temp.T1BOT, temp.T3TOP })

\* lines 686 and 709-719: update_boiler_off_observed and the dashboard values
\* (`temp.X / 100.0 if temp.X else None`)
execute_raises(temp) ==
  \/ should_transfer_raises(temp)
  \/ Raises(truthy(temp.TBTOP), { temp.TBTOP })
  \/ Raises(truthy(temp.T1BOT), { temp.T1BOT })
  \/ Raises(truthy(temp.TRET), { temp.TRET })
  \/ Raises(truthy(temp.T3BOT), { temp.T3BOT })
  \/ Raises(truthy(temp.T2TOP), { temp.T2TOP })

\* Whether execute_algorithm(temp, status) raises on the instance a.
raises_TypeError(a, temp, status) ==
  \/ execute_raises(temp)
  \/ IF is_on(status.BP)
       THEN \/ rule_one_raises(a, temp)
            \/ ~rule_one_after(a, temp) /\ rule_two_raises(temp)
       ELSE should_transfer_raises(temp) \/ safety_check_raises(temp)

\* ------------------------------------------------------------ inputs
\* A TemperatureReadings whose rule conditions are all false: no emergency,
\* Rule One's clear condition true, no Rule Two start or stop, Tank1 and
\* Tank2 at the same average, T1BOT below T3TOP + 2 C.
Nominal ==
  [ T1TOP |-> Some(6000), T1MID |-> Some(6000), T1BOT |-> Some(5800),
    T2TOP |-> Some(5500), T2MID |-> Some(6000), T2BOT |-> Some(6300),
    T3TOP |-> Some(5601), T3MID |-> Some(5000), T3BOT |-> Some(5499),
    TRET  |-> Some(5800), TBTOP |-> Some(8499) ]

Fields == { "T1TOP", "T1MID", "T1BOT", "T2TOP", "T2MID", "T2BOT",
            "T3TOP", "T3MID", "T3BOT", "TRET", "TBTOP" }

\* Readings on both sides of each threshold of Rule One: TBTOP against 8500
\* and 8700, TRET against 5800 and 6000, T1BOT against CRITICAL_TANK_TEMP.
EmergencySnapshots ==
  { [Nominal EXCEPT !.TBTOP = tb]
      : tb \in { None, Some(8499), Some(8700), Some(8701) } }
  \cup
  { [Nominal EXCEPT !.TRET = tr]
      : tr \in { None, Some(5800), Some(6000), Some(6001) } }
  \cup
  { [Nominal EXCEPT !.TBTOP = Some(8701), !.TRET = Some(6001)],
    [Nominal EXCEPT !.TBTOP = None, !.TRET = None] }
  \cup
  { [Nominal EXCEPT !.T1BOT = t1, !.TBTOP = IF known THEN Some(8499) ELSE None,
                     !.TRET = IF known THEN Some(5800) ELSE None]
      : t1 \in { Some(7000), Some(7001) }, known \in BOOLEAN }

\* Readings that satisfy Rule Two's start and stop conditions and the energy
\* start condition, with T1BOT at T3TOP + 2 C.
AllConditions ==
  [Nominal EXCEPT !.T2TOP = Some(5499), !.T2BOT = Some(6560), !.T3BOT = Some(5500),
                  !.T3TOP = Some(5600)]

\* Readings on both sides of Rule Two's start and stop conditions, with Rule
\* One's trigger false and its clear condition true; and the same in the band
\* where Rule One neither triggers nor clears.
NormalSnapshots ==
  { [Nominal EXCEPT !.T1BOT = t1, !.T2TOP = t2, !.T3BOT = t3]
      : t1 \in { Some(5799), Some(5800) },
        t2 \in { Some(5499), Some(5500) },
        t3 \in { Some(5499), Some(5500) } }
  \cup { [AllConditions EXCEPT !.TRET = Some(6000)] }

\* Tank2 against Tank1: the sums differ by -1, 0, 155, 156, 258 or 259
\* centi-degrees (diff crosses ENERGY_DIFF_STOP between 155 and 156 and
\* ENERGY_DIFF_START between 258 and 259); T1BOT - T3TOP is 199 or 200.
EnergySnapshots ==
  { [Nominal EXCEPT !.T2TOP = t2, !.T2BOT = b2, !.T3TOP = t3]
      : t2 \in { Some(5499), Some(5500) },
        b2 \in { Some(6300), Some(6456), Some(6559) },
        t3 \in { Some(5600), Some(5601) } }

\* Any set of readings absent.
AbsentSnapshots ==
  { [f \in Fields |-> IF f \in S THEN None ELSE AllConditions[f]] : S \in SUBSET Fields }

\* Nothing read; and only the boiler read, overheated.
SparseSnapshots ==
  { [f \in Fields |-> None],
    [f \in Fields |-> IF f = "TBTOP" THEN Some(8701) ELSE None] }

\* One reading absent; and nothing read at all.
MissingSnapshots ==
  { [AllConditions EXCEPT ![f] = None] : f \in Fields }
    \cup { [f \in Fields |-> None] }

Snapshots ==
  EmergencySnapshots \cup NormalSnapshots \cup EnergySnapshots \cup MissingSnapshots

\* PumpStatus as read from the PLC, or as constructed (no bit read yet).
\* execute_algorithm reads PT1T2 only when BP is on and PT2T1 only when BP is
\* off, so the two pump bits are drawn together.
Statuses ==
  { [BP |-> Some(bp), PT2T1 |-> Some(p), PT1T2 |-> Some(p), WDT |-> None]
      : bp \in BOOLEAN, p \in BOOLEAN }
    \cup { [BP |-> None, PT2T1 |-> None, PT1T2 |-> None, WDT |-> None] }

\* ------------------------------------------------------------ specification
\* Whether the call whose log is cmds switched the pump to state (a
\* set_transfer_pump whose write returned), and whether it asked to.
Switched(cmds, pump_name, state) ==
  \E i \in 1..Len(cmds) :
     cmds[i].pump = pump_name /\ cmds[i].state = state /\ cmds[i].ok
Commanded(cmds, pump_name, state) ==
  \E i \in 1..Len(cmds) : cmds[i].pump = pump_name /\ cmds[i].state = state
CommandedBy(cmds, pump_name, state, callers) ==
  \E i \in 1..Len(cmds) :
     cmds[i].pump = pump_name /\ cmds[i].state = state /\ cmds[i].by \in callers

\* The history counts calls up to HistCap, enough to compare with either floor.
HistCap == IF PUMP_MIN_ON_TIME > PUMP_MIN_OFF_TIME THEN PUMP_MIN_ON_TIME
                                                    ELSE PUMP_MIN_OFF_TIME
Since(n, now) == IF now THEN 0 ELSE IF n < HistCap THEN n + 1 ELSE n
Written(cmds, pump_name) ==
  Switched(cmds, pump_name, TRUE) \/ Switched(cmds, pump_name, FALSE)

\* logiview_ttt.py, main_loop: "backoff_time = 1", "max_backoff = 300",
\* "max_reconnect_attempts = 10", "reconnect_count = 0"; main() enters the loop
\* only when data_socket.connect() left a socket.  `last` is what the last
\* iteration did, `slept` its time.sleep(backoff_time) if it made one,
\* `failed_run` the reconnect attempts that failed in a row, `idle` the
\* iterations without data since the last packet or successful reconnect,
\* `rows` the INSERTs committed.
max_backoff == 300
max_reconnect_attempts == 10
LogiviewTTTInit ==
  [ sock |-> TRUE, backoff_time |-> 1, reconnect_count |-> 0,
    exited |-> None, last |-> "start", slept |-> None,
    failed_run |-> 0, idle |-> 0, rows |-> 0 ]

\* A reading older than FreshnessBound cycles of the main loop is stale.
FreshnessBound == 2

\* MainClass before the first cycle: TemperatureReadings() and PumpStatus()
\* hold None everywhere; no column has been read.
MainClassInit ==
  [ temp |-> [f \in Fields |-> None],
    status |-> [BP |-> None, PT2T1 |-> None, PT1T2 |-> None, WDT |-> None],
    running |-> TRUE,                       \* the loop has not been left by an exception
    read_failed |-> FALSE,                  \* the status read of the last cycle raised
    update_failed |-> FALSE,                \* the status update of the last cycle raised
    failed |-> { },                         \* columns whose read returned None in the last cycle
    last |-> [f \in Fields |-> None],       \* per column, the last value read
    age |-> [f \in Fields |-> FreshnessBound] ]  \* and the cycles since, up to FreshnessBound

\* Algorithm.__init__ switches both pumps off.
Init ==
  /\ alg = AlgorithmInit
  /\ trace = [ cmds |-> << >>, rules |-> << >>, calls |-> 0 ]
  /\ hist = [p \in Pumps |-> 0]
  /\ calc = [ volume1 |-> VOLUME_TANK1, volume2 |-> VOLUME_TANK2,
              sum1 |-> 0, sum2 |-> 0, sign |-> None ]
  /\ loop = MainClassInit
  /\ ttt = LogiviewTTTInit

CountersBelow(a, n) ==
  /\ a.pump_runtime_PT1T2 < n /\ a.pump_offtime_PT1T2 < n
  /\ a.pump_runtime_PT2T1 < n /\ a.pump_offtime_PT2T1 < n

\* One call execute_algorithm(temp, status) that returns.
Execute(temp, status) ==
  /\ ~raises_TypeError(alg, temp, status)
  /\ \E m \in execute_algorithm(Begin(alg), temp, status) :
       /\ alg' = m.a
       /\ trace' = [ cmds |-> m.cmds, rules |-> m.rules,
                     calls |-> IF trace.calls < PUMP_MIN_OFF_TIME
                                 THEN trace.calls + 1 ELSE trace.calls ]

\* The history counts the call just made.
CountCall ==
  hist' = [p \in Pumps |-> Since(hist[p], Written(trace'.cmds, p))]

ExecuteAlgorithm ==
  /\ CountersBelow(alg, MaxCount)
  /\ \E temp \in Snapshots, status \in Statuses : Execute(temp, status)
  /\ CountCall
  /\ UNCHANGED << calc, loop, ttt >>

Next == ExecuteAlgorithm

Spec == Init /\ [][Next]_vars

\* The engine on its own: the same calls with the history of calls left out.
\* The instance and the log of the last call take the same values as under
\* Spec.
EngineStep ==
  /\ CountersBelow(alg, MaxCount)
  /\ \E temp \in Snapshots, status \in Statuses : Execute(temp, status)
  /\ UNCHANGED << hist, calc, loop, ttt >>

SpecEngine == Init /\ [][EngineStep]_vars

\* ------------------------------------------------------------ float arithmetic
\* should_transfer_tank2_to_tank1 computes in Python floats (IEEE 754
\* binary64, round to nearest, ties to even).  A natural number is a sequence
\* of limbs, least significant first, without leading zero limbs; a float
\* that is not negative is [m, e], the number m * 2^e with m a natural number
\* of at most MantissaBits + 1 bits.
LimbBits == 13
LimbBase == 2 ^ LimbBits
MantissaBits == 53

RECURSIVE NatNorm(_)
NatNorm(a) ==
  IF a = << >> THEN a
  ELSE IF a[Len(a)] = 0 THEN NatNorm(SubSeq(a, 1, Len(a) - 1))
  ELSE a

\* 0 <= n < LimbBase^3
NatOfInt(n) ==
  NatNorm(<< n % LimbBase, (n \div LimbBase) % LimbBase, n \div (LimbBase * LimbBase) >>)

\* a * k + c, for 0 <= k, c < LimbBase
RECURSIVE NatMulSmall(_, _, _)
NatMulSmall(a, k, c) ==
  IF a = << >> THEN (IF c = 0 THEN << >> ELSE << c >>)
  ELSE LET t == a[1] * k + c
       IN << t % LimbBase >> \o NatMulSmall(Tail(a), k, t \div LimbBase)

\* a + b + c, for c in 0..1
RECURSIVE NatAdd(_, _, _)
NatAdd(a, b, c) ==
  IF a = << >> /\ b = << >> THEN (IF c = 0 THEN << >> ELSE << c >>)
  ELSE LET x == IF a = << >> THEN 0 ELSE a[1]
           y == IF b = << >> THEN 0 ELSE b[1]
           t == x + y + c
       IN << t % LimbBase >>
            \o NatAdd(IF a = << >> THEN a ELSE Tail(a),
                      IF b = << >> THEN b ELSE Tail(b), t \div LimbBase)

RECURSIVE NatMul(_, _)
NatMul(a, b) ==
  IF a = << >> \/ b = << >> THEN << >>
  ELSE NatNorm(NatAdd(NatMulSmall(b, a[1], 0), << 0 >> \o NatMul(Tail(a), b), 0))

\* Quotient and remainder of a by d, for 0 < d < 32 * LimbBase.
NatDivSmall(a, d) ==
  LET rem[i \in 1..(Len(a) + 1)] ==
        IF i = Len(a) + 1 THEN 0 ELSE (rem[i + 1] * LimbBase + a[i]) % d
  IN [ q |-> NatNorm([i \in 1..Len(a) |-> (rem[i + 1] * LimbBase + a[i]) \div d]),
       r |-> rem[1] ]

\* The number of bits of a: 0 for 0.
NatBits(a) ==
  IF a = << >> THEN 0
  ELSE (Len(a) - 1) * LimbBits
         + (CHOOSE k \in 1..LimbBits : 2 ^ (k - 1) <= a[Len(a)] /\ a[Len(a)] < 2 ^ k)

\* a * 2^n and a \div 2^n
NatShl(a, n) ==
  IF a = << >> THEN a
  ELSE [i \in 1..(n \div LimbBits) |-> 0] \o NatMulSmall(a, 2 ^ (n % LimbBits), 0)
NatShr(a, n) ==
  IF n \div LimbBits >= Len(a) THEN << >>
  ELSE NatDivSmall(SubSeq(a, (n \div LimbBits) + 1, Len(a)), 2 ^ (n % LimbBits)).q

\* -1, 0 or 1 as a is below, equal to or above b
RECURSIVE NatCmp(_, _)
NatCmp(a, b) ==
  IF Len(a) # Len(b) THEN (IF Len(a) < Len(b) THEN -1 ELSE 1)
  ELSE IF a = << >> THEN 0
  ELSE IF a[Len(a)] # b[Len(b)] THEN (IF a[Len(a)] < b[Len(b)] THEN -1 ELSE 1)
  ELSE NatCmp(SubSeq(a, 1, Len(a) - 1), SubSeq(b, 1, Len(b) - 1))

\* The float nearest to m * 2^e (plus a nonzero fraction below the last bit
\* of m when sticky), ties to even.
FloatRound(m, e, sticky) ==
  IF NatBits(m) <= MantissaBits THEN [ m |-> m, e |-> e ]
  ELSE LET n == NatBits(m) - MantissaBits
           q1 == NatShr(m, n - 1)
           q == NatShr(q1, 1)
           half == q1[1] % 2 = 1
           rest == sticky \/ NatShl(q1, n - 1) # m
           odd == q[1] % 2 = 1
       IN [ m |-> IF half /\ (rest \/ odd) THEN NatAdd(q, << 1 >>, 0) ELSE q,
            e |-> e + n ]

\* float(n) of an int, x * y, and x / d for an int d
FloatOfInt(n) == [ m |-> NatOfInt(n), e |-> 0 ]
FloatMul(x, y) == FloatRound(NatMul(x.m, y.m), x.e + y.e, FALSE)
FloatDivInt(x, d) ==
  LET qr == NatDivSmall(NatShl(x.m, 6 * LimbBits), d)
  IN FloatRound(qr.q, x.e - 6 * LimbBits, qr.r # 0)
\* the sign of x - y; x - y is 0.0 exactly when x = y
FloatCmp(x, y) ==
  LET low == IF x.e < y.e THEN x.e ELSE y.e
  IN NatCmp(NatShl(x.m, x.e - low), NatShl(y.m, y.e - low))

\* SPECIFIC_HEAT_CAPACITY = 1.16 as a float: 0x1.28f5c28f5c28fp+0
SPECIFIC_HEAT_CAPACITY_float == [ m |-> << 655, 1966, 5898, 1310, 1 >>, e |-> -52 ]

\* The sign of diff in should_transfer_tank2_to_tank1 for tank volumes
\* volume1 (Tank1) and volume2 (Tank2) and the sums sum1 and sum2 of the three
\* readings of Tank1 and of Tank2, computed as the source does.
float_diff_sign(volume1, volume2, sum1, sum2) ==
  LET avg_t1 == FloatDivInt(FloatOfInt(sum1), AVG_DIVISOR)
      avg_t2 == FloatDivInt(FloatOfInt(sum2), AVG_DIVISOR)
      e_tank1 == FloatMul(FloatMul(FloatOfInt(volume1), avg_t1), SPECIFIC_HEAT_CAPACITY_float)
      e_tank2 == FloatMul(FloatMul(FloatOfInt(volume2), avg_t2), SPECIFIC_HEAT_CAPACITY_float)
      scaled_e_t2 == FloatMul(FloatDivInt(e_tank2, volume2), FloatOfInt(volume1))
  IN FloatCmp(scaled_e_t2, e_tank1)

\* ------------------------------------------------------------ the energy comparison alone
\* Tank volumes in litres, and sums of a tank's three readings in
\* centi-degrees (16500 is three readings of 55.00 C).
TankVolumes == { 250, 500, 750 }
ReadingSums == { 16500, 17799, 17800, 18000, 18001 }

EnergyInit ==
  /\ alg = AlgorithmInit
  /\ trace = [ cmds |-> << >>, rules |-> << >>, calls |-> 0 ]
  /\ hist = [p \in Pumps |-> 0]
  /\ calc \in { [ volume1 |-> v1, volume2 |-> v2, sum1 |-> s1, sum2 |-> s2, sign |-> None ]
                 : v1 \in TankVolumes, v2 \in TankVolumes,
                   s1 \in ReadingSums, s2 \in ReadingSums }
  /\ loop = MainClassInit
  /\ ttt = LogiviewTTTInit

\* diff = scaled_energy_t2 - energy_tank1 is computed and its sign kept.
ComputeDiff ==
  /\ calc.sign = None
  /\ calc' = [calc EXCEPT !.sign =
                Some(float_diff_sign(calc.volume1, calc.volume2, calc.sum1, calc.sum2))]
  /\ UNCHANGED << alg, trace, hist, loop, ttt >>

EnergyNext == ComputeDiff

SpecEnergy == EnergyInit /\ [][EnergyNext]_vars

\* ------------------------------------------------------------ sparse readings
\* The engine driven by snapshots with few readings.
ExecuteSparse ==
  /\ CountersBelow(alg, MaxCount)
  /\ \E temp \in SparseSnapshots, status \in Statuses : Execute(temp, status)
  /\ CountCall
  /\ UNCHANGED << calc, loop, ttt >>

SpecSparse == Init /\ [][ExecuteSparse]_vars

\* ------------------------------------------------------------ the main loop
\* The row of the database (an overheated boiler, Rule One's trigger), and
\* the sets of columns whose read fails in one cycle: none, or the boiler's.
DatabaseRow == [Nominal EXCEPT !.TBTOP = Some(8701)]
ReadFailures == { { }, { "TBTOP" } }

\* The bits of the PLC.
PlcBits ==
  { [BP |-> Some(bp), PT2T1 |-> Some(p), PT1T2 |-> Some(p)] : bp \in BOOLEAN, p \in BOOLEAN }

\* lines 1259-1264: every column is set to what get_temperature_value
\* returned, None when the read failed.
ReadTemperatures(failed) ==
  [f \in Fields |-> IF f \in failed THEN None ELSE DatabaseRow[f]]

\* lines 1282-1288: the bits are read in order BP, PT2T1, PT1T2; read_bit
\* raises on a failure, which keeps the bits read before it and leaves the
\* others as they were.  n is the number of bits read.
ReadStatus(status, plc, n) ==
  [ BP    |-> IF n >= 1 THEN plc.BP ELSE status.BP,
    PT2T1 |-> IF n >= 2 THEN plc.PT2T1 ELSE status.PT2T1,
    PT1T2 |-> IF n >= 3 THEN plc.PT1T2 ELSE status.PT1T2,
    WDT   |-> status.WDT ]

\* What the I/O of a cycle raises when it fails, and the `except` clauses
\* around each call, innermost first.  read_bit and write_bit raise again
\* what snap7 raised (reconnect catches its own exceptions).
DatabaseError == "mysql.connector.Error"
PlcError == "Exception"
Catches(clause, exception) == clause = "Exception" \/ clause = exception
Propagates(exception, clauses) ==
  \A i \in 1..Len(clauses) : ~Catches(clauses[i], exception)

\* The status read without its try block.
status_read_unprotected == << >>

temperature_read_clauses == << "mysql.connector.Error" >>       \* line 358
status_read_clauses == << "Exception" >>                        \* line 1290
status_update_clauses == << "mysql.connector.Error", "Exception" >>  \* update_status_in_db, line 1297

\* Whether the cycle leaves `while True` by an exception, which main_loop's
\* outer clauses turn into exit_program.
cycle_raises(failed, n, update_failed, temp, status) ==
  \/ failed # { } /\ Propagates(DatabaseError, temperature_read_clauses)
  \/ n < 3 /\ Propagates(PlcError, status_read_clauses)
  \/ update_failed /\ Propagates(DatabaseError, status_update_clauses)
  \/ raises_TypeError(alg, temp, status)

\* One cycle of `while True`: the temperatures, the status, the status
\* update, the algorithm.
MainLoop ==
  /\ loop.running
  /\ CountersBelow(alg, MaxCount)
  /\ \E failed \in ReadFailures, plc \in PlcBits, n \in 0..3, update_failed \in BOOLEAN :
       LET temp == ReadTemperatures(failed)
           status == ReadStatus(loop.status, plc, n)
       IN IF cycle_raises(failed, n, update_failed, temp, status)
            THEN /\ loop' = [loop EXCEPT !.running = FALSE]
                 /\ UNCHANGED << alg, trace >>
            ELSE
          /\ Execute(temp, status)
          /\ loop' = [ temp |-> temp,
                       status |-> status,
                       running |-> TRUE,
                       read_failed |-> n < 3,
                       update_failed |-> update_failed,
                       failed |-> failed,
                       last |-> [f \in Fields |->
                                  IF f \in failed THEN loop.last[f] ELSE temp[f]],
                       age |-> [f \in Fields |->
                                  IF f \notin failed THEN 0
                                  ELSE IF loop.age[f] < FreshnessBound
                                         THEN loop.age[f] + 1 ELSE loop.age[f]] ]
  /\ UNCHANGED << hist, calc, ttt >>

SpecLoop == Init /\ [][MainLoop]_vars

\* ------------------------------------------------------------ the pump calls alone
\* Any sequence of set_transfer_pump and update_pump_counter calls on the
\* instance, whatever rule makes them; trace.cmds holds the last command.
SetTransferPump ==
  /\ CountersBelow(alg, MaxCount)
  /\ \E pump_name \in Pumps, state \in BOOLEAN :
       \E m \in set_transfer_pump(Begin(alg), pump_name, state, "CALL") :
          /\ alg' = m.a
          /\ trace' = [trace EXCEPT !.cmds = m.cmds]
  /\ UNCHANGED << hist, calc, loop, ttt >>

UpdatePumpCounter ==
  /\ CountersBelow(alg, MaxCount)
  /\ \E pump_name \in Pumps :
       alg' = update_pump_counter(Begin(alg), pump_name).a
  /\ trace' = [trace EXCEPT !.cmds = << >>]
  /\ UNCHANGED << hist, calc, loop, ttt >>

NextCalls == SetTransferPump \/ UpdatePumpCounter
SpecCalls == Init /\ [][NextCalls]_vars

\* ------------------------------------------------------------ the sensor socket loop
\* The rows counted, at most.
MaxRows == 4

Min(a, b) == IF a < b THEN a ELSE b

\* "backoff_time = backoff_time * 2" without the cap.
next_backoff_uncapped(backoff_time) ==
  backoff_time * 2

\* "backoff_time = min(backoff_time * 2, max_backoff)"
next_backoff(backoff_time) ==
  Min(backoff_time * 2, max_backoff)

\* The attempts limited by "<" instead of "<=".
may_reconnect_strict(reconnect_count) ==
  reconnect_count < max_reconnect_attempts

\* "if reconnect_count <= max_reconnect_attempts"
may_reconnect(reconnect_count) ==
  reconnect_count <= max_reconnect_attempts

\* exit_program's messages: sys.exit leaves main_loop, SystemExit not being an
\* Exception.
MaxReconnectExceeded == "Exiting program: Max reconnect attempts exceeded"
UnexpectedError == "Exiting program: An unexpected error occurred"

\* An iteration whose receive_sensor_data returned nothing (no socket, a
\* timeout, a closed connection, bytes that are not JSON, or an empty value):
\* count it, and either sleep, double the backoff and connect(), or exit.
NoData ==
  /\ ttt.exited = None
  /\ LET count == ttt.reconnect_count + 1
     IN IF may_reconnect(count)
          THEN \E connected \in BOOLEAN :
                 ttt' = [ttt EXCEPT
                           !.slept = Some(ttt.backoff_time),
                           !.sock = connected,
                           !.reconnect_count = IF connected THEN 0 ELSE count,
                           !.backoff_time = IF connected THEN 1
                                                         ELSE next_backoff(ttt.backoff_time),
                           !.last = IF connected THEN "reconnected" ELSE "failed",
                           !.failed_run = IF connected THEN 0 ELSE @ + 1,
                           !.idle = IF connected THEN 0 ELSE @ + 1]
          ELSE ttt' = [ttt EXCEPT
                         !.reconnect_count = count,
                         !.exited = Some(MaxReconnectExceeded),
                         !.last = "exit", !.slept = None,
                         !.idle = @ + 1]
  /\ UNCHANGED << alg, trace, hist, calc, loop >>

\* An iteration whose receive_sensor_data returned a packet: a list of
\* readings, whose INSERT commits or fails with a logged mysql.connector.Error,
\* or a JSON value that is not a list of objects, on which `.get` raises.
Packets == { "readings", "malformed" }
Data ==
  /\ ttt.exited = None /\ ttt.sock
  /\ ttt.rows < MaxRows
  /\ \E packet \in Packets, committed \in BOOLEAN :
       LET reset == IF ttt.reconnect_count > 0
                      THEN [ttt EXCEPT !.reconnect_count = 0, !.backoff_time = 1]
                      ELSE ttt
           seen == [reset EXCEPT !.slept = None, !.failed_run = 0, !.idle = 0]
       IN ttt' = IF packet = "malformed"
                   THEN [seen EXCEPT !.exited = Some(UnexpectedError), !.last = "exit"]
                   ELSE IF committed
                     THEN [seen EXCEPT !.rows = @ + 1, !.last = "data"]
                     ELSE [seen EXCEPT !.last = "data lost"]
  /\ UNCHANGED << alg, trace, hist, calc, loop >>

NextTTT == NoData \/ Data
SpecTTT == Init /\ [][NextTTT]_vars

\* ------------------------------------------------------------ claims
\* The words of the claims, stated on the readings and not through the
\* engine's own conditions.
Present(x) == x # None
OnStatuses == { s \in Statuses : s.BP = Some(TRUE) }
OffStatuses == Statuses \ OnStatuses
\* The outcomes of one execute_algorithm from the current state.
Steps(temp, status) == execute_algorithm(Begin(alg), temp, status)
PumpState(a, pump_name) ==
  IF pump_name = "PT1T2" THEN a.pump_state_PT1T2 ELSE a.pump_state_PT2T1

RuleETrigger(temp) ==
  \/ Present(temp.TBTOP) /\ val(temp.TBTOP) > 8700
  \/ Present(temp.T1BOT) /\ val(temp.T1BOT) > CRITICAL_TANK_TEMP
  \/ Present(temp.TRET) /\ val(temp.TRET) > 6000
RuleEClear(temp) ==
  /\ ~RuleETrigger(temp)
  /\ Present(temp.TRET) /\ val(temp.TRET) <= 5800
  /\ Present(temp.TBTOP) /\ val(temp.TBTOP) < 8500
RuleNStart(temp) ==
  \/ Present(temp.TRET) /\ val(temp.TRET) > 6000
  \/ /\ Present(temp.T1BOT) /\ Present(temp.T1MID) /\ Present(temp.T2TOP)
     /\ val(temp.T1BOT) >= 5800
     /\ val(temp.T1MID) > val(temp.T2TOP) + 500
RuleNStop(temp) ==
  /\ Present(temp.T1BOT) /\ Present(temp.T3BOT)
  /\ val(temp.T1BOT) - val(temp.T3BOT) <= 300
SixPresent(temp) ==
  \A f \in { "T1TOP", "T1MID", "T1BOT", "T2TOP", "T2MID", "T2BOT" } : Present(temp[f])
\* scaled_energy_diff(Tank2, Tank1) = Volume(Tank1) * SPECIFIC_HEAT *
\* (avg(Tank2) - avg(Tank1)), as a numerator over AVG_DIVISOR * 100.
ScaledEnergyDiff(temp) ==
  VOLUME_TANK1 * SPECIFIC_HEAT_CAPACITY_x100
    * ((val(temp.T2TOP) + val(temp.T2MID) + val(temp.T2BOT))
         - (val(temp.T1TOP) + val(temp.T1MID) + val(temp.T1BOT)))
SameAverage(temp) ==
  val(temp.T2TOP) + val(temp.T2MID) + val(temp.T2BOT)
    = val(temp.T1TOP) + val(temp.T1MID) + val(temp.T1BOT)
Override(temp) ==
  /\ Present(temp.T1BOT) /\ Present(temp.T3TOP)
  /\ val(temp.T1BOT) - val(temp.T3TOP) >= 200

\* No PLC write of the step failed.
AllWritten(cmds) == \A i \in 1..Len(cmds) : cmds[i].ok

\* C1: in every BP-on step whose snapshot satisfies Rule E's trigger, the
\* commanded PT1T2 state is on after the step, whatever the dwell counters
\* and the observed PT1T2 status (stated for the steps in which no PLC
\* write failed).
C1_EmergencyBypass ==
  \A temp \in Snapshots, status \in OnStatuses :
     RuleETrigger(temp) =>
       \A m \in Steps(temp, status) :
          AllWritten(m.cmds) => m.a.pump_state_PT1T2

\* C2: a step that commands an off pump on by Rule N or Rule B comes at least
\* PUMP_MIN_OFF_TIME steps after the step that switched the pump off.
C2_MinOffTime ==
  [][ \A p \in Pumps :
        (~PumpState(alg, p) /\ CommandedBy(trace'.cmds, p, TRUE, {"N", "B"}))
          => hist[p] + 1 >= PUMP_MIN_OFF_TIME ]_vars

\* C3: a step in which a rule (Rule E's clear, Rule N's stop, Rule B's stop
\* or its T1BOT - T3TOP check) commands a running pump off comes at least
\* PUMP_MIN_ON_TIME steps after the step that switched the pump on.  (The
\* claim also covers the forced off of a BP change, which ignores the floor.)
C3_MinOnTime ==
  [][ \A p \in Pumps :
        (PumpState(alg, p)
           /\ CommandedBy(trace'.cmds, p, FALSE, {"E", "N", "B", "OVERRIDE"}))
          => hist[p] + 1 >= PUMP_MIN_ON_TIME ]_vars

\* C4: in a BP-on step that leaves Rule E active, Rule N is not evaluated:
\* it makes no start or stop decision, does not touch its flag, and PT1T2's
\* counters advance once (Rule E's update), not twice.
C4_RuleNSuppressed ==
  \A temp \in Snapshots, status \in OnStatuses :
     \A m \in Steps(temp, status) :
        m.a.rule_one_active =>
          /\ m.rules = << "E" >>
          /\ ~CommandedBy(m.cmds, "PT1T2", TRUE, {"N"})
          /\ ~CommandedBy(m.cmds, "PT1T2", FALSE, {"N"})
          /\ m.a.rule_two_active = alg.rule_two_active
          /\ m.a.pump_runtime_PT1T2 <= alg.pump_runtime_PT1T2 + 1
          /\ m.a.pump_offtime_PT1T2 <= alg.pump_offtime_PT1T2 + 1
\* A BP-on step has left Rule E active with PT1T2 on, and Rule N did not run.
C4_Witness ==
  /\ alg.rule_one_active /\ alg.pump_state_PT1T2
  /\ ~alg.boiler_off_active /\ trace.rules = << "E" >>

\* C5: while Rule E is active, a BP-on step keeps it active and does not
\* command PT1T2 off, except a step whose snapshot has the trigger false,
\* TRET present and <= 5800, TBTOP present and < 8500, taken with PT1T2's
\* runtime >= PUMP_MIN_ON_TIME: that step makes Rule E inactive and
\* commands PT1T2 off.
C5_RuleELatch ==
  alg.rule_one_active =>
    \A temp \in Snapshots, status \in OnStatuses :
       \A m \in Steps(temp, status) :
          IF RuleEClear(temp) /\ alg.pump_runtime_PT1T2 >= PUMP_MIN_ON_TIME
            THEN ~m.a.rule_one_active /\ CommandedBy(m.cmds, "PT1T2", FALSE, {"E"})
            ELSE m.a.rule_one_active /\ ~Commanded(m.cmds, "PT1T2", FALSE)
\* Rule E has just been cleared: its off command was written and the rule
\* is inactive.
C5_Witness ==
  /\ ~alg.rule_one_active /\ ~alg.pump_state_PT1T2 /\ ~alg.boiler_off_active
  /\ \E i \in 1..Len(trace.cmds) :
        trace.cmds[i] = [pump |-> "PT1T2", state |-> FALSE, by |-> "E", ok |-> TRUE]

\* C6: at the end of every step in which Rule E is active, PT1T2's commanded
\* state is on (stated for the steps in which no PLC write failed).
C6_RuleEForcesOn ==
  (alg.rule_one_active /\ AllWritten(trace.cmds)) => alg.pump_state_PT1T2

\* C7: in a BP-on step in which Rule N is evaluated and both its start and
\* its stop condition hold, Rule N does not command PT1T2 off.
C7_StartWins ==
  \A temp \in Snapshots, status \in OnStatuses :
     (RuleNStart(temp) /\ RuleNStop(temp)) =>
       \A m \in Steps(temp, status) :
          ~CommandedBy(m.cmds, "PT1T2", FALSE, {"N"})

\* C8: in a BP-off step with all six Tank1/Tank2 readings present and PT2T1
\* commanded on, (a) with ENERGY_DIFF_STOP < diff <= ENERGY_DIFF_START and
\* the T1BOT - T3TOP condition false, PT2T1 is not commanded off, and (b) the
\* energy rule commands PT2T1 off only if diff <= ENERGY_DIFF_STOP.
C8_Hysteresis ==
  \A temp \in Snapshots, status \in OffStatuses :
     (SixPresent(temp) /\ alg.pump_state_PT2T1) =>
       \A m \in Steps(temp, status) :
          /\ ( /\ ScaledEnergyDiff(temp) > Wh(ENERGY_DIFF_STOP)
               /\ ScaledEnergyDiff(temp) <= Wh(ENERGY_DIFF_START)
               /\ ~Override(temp) )
               => (~Commanded(m.cmds, "PT2T1", FALSE) /\ m.a.pump_state_PT2T1)
          /\ CommandedBy(m.cmds, "PT2T1", FALSE, {"B"})
               => ScaledEnergyDiff(temp) <= Wh(ENERGY_DIFF_STOP)
\* PT2T1 has run past its minimum on-time and is observed on, and a BP-off
\* step whose diff lies in the band keeps it on.
C8_Witness ==
  /\ alg.pump_state_PT2T1 /\ alg.pump_runtime_PT2T1 >= PUMP_MIN_ON_TIME
  /\ \E temp \in Snapshots, status \in OffStatuses :
        /\ SixPresent(temp) /\ ~Override(temp) /\ is_on(status.PT2T1)
        /\ ScaledEnergyDiff(temp) > Wh(ENERGY_DIFF_STOP)
        /\ ScaledEnergyDiff(temp) <= Wh(ENERGY_DIFF_START)
        /\ \A m \in Steps(temp, status) :
              m.a.pump_state_PT2T1 /\ ~Commanded(m.cmds, "PT2T1", FALSE)

\* C9: in a BP-off step with PT2T1 off (commanded and observed) and its
\* offtime >= PUMP_MIN_OFF_TIME, PT2T1 is commanded on if and only if all six
\* Tank1/Tank2 readings are present and diff > ENERGY_DIFF_START; and no step
\* at all commands PT2T1 on when the two tanks have the same average.
C9_RuleBStart ==
  /\ \A temp \in Snapshots, status \in OffStatuses :
        ( /\ ~alg.pump_state_PT2T1 /\ ~is_on(status.PT2T1)
          /\ alg.pump_offtime_PT2T1 >= PUMP_MIN_OFF_TIME )
          => \A m \in Steps(temp, status) :
                Commanded(m.cmds, "PT2T1", TRUE)
                  <=> (SixPresent(temp) /\ ScaledEnergyDiff(temp) > Wh(ENERGY_DIFF_START))
  /\ \A temp \in Snapshots, status \in Statuses :
        (SixPresent(temp) /\ SameAverage(temp))
          => \A m \in Steps(temp, status) : ~Commanded(m.cmds, "PT2T1", TRUE)
\* The energy rule has just started PT2T1.
C9_Witness ==
  /\ alg.pump_state_PT2T1 /\ alg.boiler_off_active
  /\ \E i \in 1..Len(trace.cmds) :
        trace.cmds[i] = [pump |-> "PT2T1", state |-> TRUE, by |-> "B", ok |-> TRUE]

\* C10: in a BP-off step with T1BOT and T3TOP present and T1BOT - T3TOP >=
\* 200, a PT2T1 that is on (commanded and observed) with runtime >=
\* PUMP_MIN_ON_TIME at the start of the step is commanded off in that step,
\* whatever diff is.
C10_SafetyOverride ==
  \A temp \in Snapshots, status \in OffStatuses :
     ( /\ Override(temp)
       /\ alg.pump_state_PT2T1 /\ is_on(status.PT2T1)
       /\ alg.pump_runtime_PT2T1 >= PUMP_MIN_ON_TIME )
       => \A m \in Steps(temp, status) : Commanded(m.cmds, "PT2T1", FALSE)
\* PT2T1 has run its minimum on-time, and a BP-off step with diff above
\* ENERGY_DIFF_START and T1BOT - T3TOP >= 200 has the safety check command it off.
C10_Witness ==
  /\ alg.pump_state_PT2T1 /\ alg.pump_runtime_PT2T1 >= PUMP_MIN_ON_TIME
  /\ \E temp \in Snapshots, status \in OffStatuses :
        /\ Override(temp) /\ is_on(status.PT2T1) /\ SixPresent(temp)
        /\ ScaledEnergyDiff(temp) > Wh(ENERGY_DIFF_START)
        /\ \A m \in Steps(temp, status) :
              CommandedBy(m.cmds, "PT2T1", FALSE, {"OVERRIDE"})

\* C11: in every BP-off step PT1T2 is commanded off (and not on), whatever
\* its runtime, the rule state and the snapshot; Rule E and Rule N are not
\* evaluated, rule_one_active and rule_two_active are false after the step,
\* and PT1T2's commanded state is off when the write did not fail.
C11_BoilerOffForcesPT1T2 ==
  \A temp \in Snapshots, status \in OffStatuses :
     \A m \in Steps(temp, status) :
        /\ Commanded(m.cmds, "PT1T2", FALSE)
        /\ ~Commanded(m.cmds, "PT1T2", TRUE)
        /\ m.rules = << "B" >>
        /\ ~m.a.rule_one_active /\ ~m.a.rule_two_active
        /\ AllWritten(m.cmds) => ~m.a.pump_state_PT1T2
\* Rule E is active with PT1T2 running below its minimum on-time, and a
\* BP-off step whose snapshot satisfies Rule E's trigger commands PT1T2 off.
C11_Witness ==
  /\ alg.rule_one_active /\ alg.pump_state_PT1T2
  /\ alg.pump_runtime_PT1T2 < PUMP_MIN_ON_TIME
  /\ \E temp \in Snapshots, status \in OffStatuses :
        /\ RuleETrigger(temp)
        /\ \A m \in Steps(temp, status) :
              CommandedBy(m.cmds, "PT1T2", FALSE, {"OFF"}) /\ ~m.a.rule_one_active

Sgn(x) == IF x > 0 THEN 1 ELSE IF x < 0 THEN -1 ELSE 0

\* C13: diff = scaled_energy_diff(Tank2, Tank1) has the sign of avg(Tank2) -
\* avg(Tank1), for any positive tank volumes; in particular it is zero when
\* the two averages are equal.
C13_ScaledEnergyDiffSign ==
  calc.sign # None => val(calc.sign) = Sgn(calc.sum2 - calc.sum1)

\* A pump's dwell counters.
Runtime(a, pump_name) ==
  IF pump_name = "PT1T2" THEN a.pump_runtime_PT1T2 ELSE a.pump_runtime_PT2T1
Offtime(a, pump_name) ==
  IF pump_name = "PT1T2" THEN a.pump_offtime_PT1T2 ELSE a.pump_offtime_PT2T1

\* C14: no step, BP on or BP off, resets the dwell counter of a pump whose
\* commanded state does not change in the step: the runtime of a pump that
\* stays on, and the offtime of a pump that stays off, do not go back.
C14_CountersKept ==
  \A temp \in Snapshots, status \in Statuses :
     \A m \in Steps(temp, status) :
        \A p \in Pumps :
           PumpState(m.a, p) = PumpState(alg, p) =>
             IF PumpState(alg, p)
               THEN Runtime(m.a, p) >= Runtime(alg, p)
               ELSE Offtime(m.a, p) >= Offtime(alg, p)

\* C15: every step advances by one the counter of the state each pump is
\* commanded to at the end of the step (from zero when the state changed in
\* the step) and leaves the other counter at zero.
C15_DwellCounting ==
  \A temp \in Snapshots, status \in Statuses :
     \A m \in Steps(temp, status) :
        \A p \in Pumps :
           IF PumpState(m.a, p)
             THEN /\ Offtime(m.a, p) = 0
                  /\ Runtime(m.a, p) = IF PumpState(alg, p) THEN Runtime(alg, p) + 1 ELSE 1
             ELSE /\ Runtime(m.a, p) = 0
                  /\ Offtime(m.a, p) = IF PumpState(alg, p) THEN 1 ELSE Offtime(alg, p) + 1

\* C16: in a BP-off step in which one of the six Tank1/Tank2 readings is
\* absent, the energy rule commands PT2T1 neither on nor off.
C16_MissingReadingSkipsRuleB ==
  \A temp \in Snapshots, status \in OffStatuses :
     ~SixPresent(temp) =>
       \A m \in Steps(temp, status) :
          /\ ~CommandedBy(m.cmds, "PT2T1", TRUE, {"B"})
          /\ ~CommandedBy(m.cmds, "PT2T1", FALSE, {"B"})

\* What Rule E did in an outcome of a step: its flag and its commands.
RuleEOutcome(m) ==
  << m.a.rule_one_active, { m.cmds[i] : i \in { j \in 1..Len(m.cmds) : m.cmds[j].by = "E" } } >>
\* Present values of T2TOP, zero among them.
T2TopValues == { Some(0), Some(5499), Some(5500) }
WithoutT2TOP(temp) == [temp EXCEPT !.T2TOP = None]

\* C17: in a BP-on step in which T2TOP is absent, Rule E's outcome (its flag
\* and its PT1T2 command) is the one it has for any present value of T2TOP,
\* and Rule N does not command PT1T2 on.
C17_MissingT2TOP ==
  \A temp \in Snapshots, status \in OnStatuses :
     /\ \A v \in T2TopValues :
           { RuleEOutcome(m) : m \in Steps(WithoutT2TOP(temp), status) }
             = { RuleEOutcome(m) : m \in Steps([temp EXCEPT !.T2TOP = v], status) }
     /\ \A m \in Steps(WithoutT2TOP(temp), status) :
           ~CommandedBy(m.cmds, "PT1T2", TRUE, {"N"})
\* PT1T2 is off past its minimum off-time with Rule E inactive, and a
\* snapshot for which Rule N commands PT1T2 on through the T1MID/T2TOP term
\* leaves PT1T2 alone once its T2TOP is absent.
C17_Witness ==
  /\ ~alg.rule_one_active /\ ~alg.pump_state_PT1T2
  /\ alg.pump_offtime_PT1T2 >= PUMP_MIN_OFF_TIME
  /\ \E temp \in Snapshots, status \in OnStatuses :
        /\ ~RuleETrigger(temp) /\ RuleNStart(temp) /\ ~is_on(status.PT1T2)
        /\ \E m \in Steps(temp, status) : CommandedBy(m.cmds, "PT1T2", TRUE, {"N"})
        /\ \A m \in Steps(WithoutT2TOP(temp), status) :
              ~Commanded(m.cmds, "PT1T2", TRUE) /\ ~m.a.pump_state_PT1T2

\* C18: for every snapshot (any set of the 11 readings absent), every status
\* (bits never read included) and every outcome of the PLC writes,
\* execute_algorithm raises no exception and ends in a state of the engine.
C18_StepCompletes ==
  /\ \A temp \in AbsentSnapshots \cup Snapshots, status \in Statuses :
        ~raises_TypeError(alg, temp, status)
  /\ \A temp \in MissingSnapshots, status \in Statuses :
        /\ Steps(temp, status) # { }
        /\ \A m \in Steps(temp, status) :
              \A p \in Pumps : Runtime(m.a, p) >= 0 /\ Offtime(m.a, p) >= 0
\* A step in which a PLC write failed has completed, and the step with
\* nothing read at all (no reading, no status bit) has outcomes from here,
\* one of them with a failed write.
C18_Witness ==
  /\ trace.rules # << >> /\ ~AllWritten(trace.cmds)
  /\ \E m \in Steps([f \in Fields |-> None],
                     [BP |-> None, PT2T1 |-> None, PT1T2 |-> None, WDT |-> None]) :
        ~AllWritten(m.cmds)

\* C19: in a cycle whose read of the status bits from the PLC fails, no pump
\* command is issued and both pumps' commanded states stay as they were.
C19_FailedStatusReadSkips ==
  [][ loop'.read_failed =>
        /\ trace'.cmds = << >>
        /\ \A p \in Pumps : PumpState(alg', p) = PumpState(alg, p) ]_vars

\* The value the snapshot should hold for a column whose read failed: the
\* last value read if younger than the freshness bound, unknown otherwise.
Fallback(f) ==
  IF loop.last[f] # None /\ loop.age[f] < FreshnessBound THEN loop.last[f] ELSE None

\* C20: after a cycle in which a column's read failed, the snapshot given to
\* the engine holds the column's last read value if that is younger than the
\* freshness bound and unknown otherwise; a value as old as the bound is not
\* in the snapshot.
C20_FreshnessFallback ==
  \A f \in loop.failed :
     /\ loop.temp[f] = Fallback(f)
     /\ loop.age[f] >= FreshnessBound => loop.temp[f] = None

\* C21: once the loop has started, no failure of a PLC read, a PLC write, a
\* database read or a database status update ends it: after every cycle,
\* whatever failed in it, the loop is still running and goes on to the next
\* cycle.
C21_LoopGoesOn ==
  loop.running
\* A cycle in which a temperature read, the status read, the status update
\* and a PLC write all failed has completed and the loop is running.
C21_Witness ==
  /\ loop.running
  /\ loop.failed # { } /\ loop.read_failed /\ loop.update_failed
  /\ trace.cmds # << >> /\ ~AllWritten(trace.cmds)

\* C22: right after construction both pumps are commanded off, the four
\* dwell counters are zero and the three rule flags are inactive; and from
\* construction, in a step taken before PUMP_MIN_OFF_TIME steps have elapsed
\* no rule but Rule E commands a pump on.
C22_InitialState ==
  /\ \A p \in Pumps : ~PumpState(alg, p) /\ Runtime(alg, p) = 0 /\ Offtime(alg, p) = 0
  /\ ~alg.rule_one_active /\ ~alg.rule_two_active /\ ~alg.boiler_off_active
  /\ [][ trace.calls < PUMP_MIN_OFF_TIME =>
            \A p \in Pumps : ~CommandedBy(trace'.cmds, p, TRUE, {"N", "B"}) ]_vars

\* C23: at the end of every step rule_one_active and rule_two_active are not
\* both true.
C23_EmergencyWinsFlags ==
  ~(alg.rule_one_active /\ alg.rule_two_active)

\* C24: in a BP-on step taken with Rule E active and PT1T2's runtime >=
\* PUMP_MIN_ON_TIME, whose snapshot satisfies both Rule E's clear condition
\* and Rule N's start condition, PT1T2 is not commanded off.
C24_HandOverStartWins ==
  (alg.rule_one_active /\ alg.pump_runtime_PT1T2 >= PUMP_MIN_ON_TIME) =>
    \A temp \in Snapshots, status \in OnStatuses :
       (RuleEClear(temp) /\ RuleNStart(temp)) =>
         \A m \in Steps(temp, status) : ~Commanded(m.cmds, "PT1T2", FALSE)

\* Snapshots with TRET <= 5800, TBTOP < 8500 and T1BOT <= CRITICAL_TANK_TEMP,
\* all present.
CalmSnapshots ==
  { temp \in Snapshots :
      /\ Present(temp.TRET) /\ val(temp.TRET) <= 5800
      /\ Present(temp.TBTOP) /\ val(temp.TBTOP) < 8500
      /\ Present(temp.T1BOT) /\ val(temp.T1BOT) <= CRITICAL_TANK_TEMP }

\* The instances that n BP-on steps with such snapshots lead to from the
\* instances as, for every observed status and every outcome of the writes.
RECURSIVE AfterCalmSteps(_, _)
AfterCalmSteps(as, n) ==
  IF n = 0 THEN as
  ELSE AfterCalmSteps(
         { m.a : m \in UNION { execute_algorithm(Begin(a), temp, status)
                                 : a \in as, temp \in CalmSnapshots, status \in OnStatuses } },
         n - 1)

\* C25: when BP stays on and every snapshot has TRET <= 5800, TBTOP < 8500
\* and T1BOT <= CRITICAL_TANK_TEMP, an active Rule E is inactive after
\* PUMP_MIN_ON_TIME further steps, whatever the observed PT1T2 status.
C25_RuleEClears ==
  alg.rule_one_active =>
    \A a \in AfterCalmSteps({ alg }, PUMP_MIN_ON_TIME) : ~a.rule_one_active

\* Snapshots with Rule E's trigger false and Rule N's start condition true,
\* and the statuses with BP on and PT1T2 observed off.
StartSnapshots ==
  { temp \in Snapshots : ~RuleETrigger(temp) /\ RuleNStart(temp) }
OnStatusesPT1T2Off ==
  { status \in OnStatuses : status.PT1T2 = Some(FALSE) }

\* From the instance a, every sequence of such steps whose writes succeed
\* commands PT1T2 on in one of its first n steps.
RECURSIVE StartsWithin(_, _)
StartsWithin(a, n) ==
  /\ n > 0
  /\ \A temp \in StartSnapshots, status \in OnStatusesPT1T2Off :
        \A m \in execute_algorithm(Begin(a), temp, status) :
           AllWritten(m.cmds) =>
             \/ Commanded(m.cmds, "PT1T2", TRUE)
             \/ StartsWithin(m.a, n - 1)

\* C26: with Rule E inactive and PT1T2 commanded off, when BP stays on, Rule
\* E is not triggered, Rule N's start condition holds in every snapshot,
\* PT1T2 is observed off and the PLC writes succeed, PT1T2 is commanded on
\* within PUMP_MIN_OFF_TIME steps.
C26_RuleNStarts ==
  (~alg.rule_one_active /\ ~alg.pump_state_PT1T2) =>
    StartsWithin(alg, PUMP_MIN_OFF_TIME)
\* Rule N has just started PT1T2 (its write returned) with Rule E inactive,
\* in a step that found the pump's offtime at the floor or above.
C26_Witness ==
  /\ alg.pump_state_PT1T2 /\ ~alg.rule_one_active /\ ~alg.boiler_off_active
  /\ trace.cmds = << [pump |-> "PT1T2", state |-> TRUE, by |-> "N", ok |-> TRUE] >>

\* C27: a step in which the T1BOT - T3TOP override commands a running PT2T1
\* off comes at least PUMP_MIN_ON_TIME steps after the step that switched it
\* on, as does a step in which the energy rule stops it.
C27_OverrideMinOnTime ==
  [][ (alg.pump_state_PT2T1
         /\ CommandedBy(trace'.cmds, "PT2T1", FALSE, {"OVERRIDE"}))
        => hist["PT2T1"] + 1 >= PUMP_MIN_ON_TIME ]_vars

\* C28: no BP-off step whose snapshot has T1BOT - T3TOP >= 200 (both present)
\* commands PT2T1 on.
C28_OverrideHoldsOff ==
  \A temp \in Snapshots, status \in OffStatuses :
     Override(temp) =>
       \A m \in Steps(temp, status) : ~Commanded(m.cmds, "PT2T1", TRUE)

\* The second term of Rule N's start condition.
RuleNTankTerm(temp) ==
  /\ Present(temp.T1BOT) /\ Present(temp.T1MID) /\ Present(temp.T2TOP)
  /\ val(temp.T1BOT) >= 5800
  /\ val(temp.T1MID) > val(temp.T2TOP) + 500
RuleNEvaluated(m) == \E i \in 1..Len(m.rules) : m.rules[i] = "N"

\* C29: in every BP-on step in which Rule N is evaluated, TRET is absent or
\* <= 6000 (a present TRET > 6000 activates Rule E first), and every start of
\* PT1T2 by Rule N comes with the T1BOT/T1MID/T2TOP term true.
C29_RuleNWithoutTret ==
  \A temp \in Snapshots, status \in OnStatuses :
     \A m \in Steps(temp, status) :
        RuleNEvaluated(m) =>
          /\ ~(Present(temp.TRET) /\ val(temp.TRET) > 6000)
          /\ CommandedBy(m.cmds, "PT1T2", TRUE, {"N"}) => RuleNTankTerm(temp)
\* Rule N was evaluated after Rule E in the last step and started PT1T2.
C29_Witness ==
  /\ trace.rules = << "E", "N" >>
  /\ CommandedBy(trace.cmds, "PT1T2", TRUE, {"N"})
  /\ alg.rule_two_active /\ ~alg.rule_one_active

\* C30: after every step in which no PLC write failed, PT1T2 and PT2T1 are
\* not both commanded on: a BP-on step leaves PT2T1 commanded off and a
\* BP-off step leaves PT1T2 commanded off.
C30_MutualExclusion ==
  AllWritten(trace.cmds) =>
    /\ ~(alg.pump_state_PT1T2 /\ alg.pump_state_PT2T1)
    /\ trace.rules # << >> =>
         IF alg.boiler_off_active THEN ~alg.pump_state_PT1T2
                                  ELSE ~alg.pump_state_PT2T1
\* A BP-off step has forced PT1T2 off and started PT2T1, every write returning.
C30_Witness ==
  /\ AllWritten(trace.cmds) /\ alg.boiler_off_active
  /\ CommandedBy(trace.cmds, "PT1T2", FALSE, {"OFF"})
  /\ CommandedBy(trace.cmds, "PT2T1", TRUE, {"B"})
  /\ alg.pump_state_PT2T1 /\ ~alg.pump_state_PT1T2

\* C31: in every state reached by set_transfer_pump and update_pump_counter
\* calls, failed PLC writes included, each pump's runtime and offtime are
\* >= 0 and at least one of the two is zero.
C31_CountersExclusive ==
  \A p \in Pumps :
     /\ Runtime(alg, p) >= 0 /\ Offtime(alg, p) >= 0
     /\ Runtime(alg, p) = 0 \/ Offtime(alg, p) = 0
\* A running pump with a positive runtime has just had its off command fail.
C31_Witness ==
  /\ alg.pump_state_PT1T2 /\ alg.pump_runtime_PT1T2 > 0
  /\ trace.cmds = << [pump |-> "PT1T2", state |-> FALSE, by |-> "CALL", ok |-> FALSE] >>

\* C32: no step commands the same pump both on and off, for every snapshot,
\* observed status and rule state (PUMP_MIN_OFF_TIME being at least 2).
C32_OnePolarity ==
  \A temp \in Snapshots, status \in Statuses :
     \A m \in Steps(temp, status) :
        \A p \in Pumps :
           ~(Commanded(m.cmds, p, TRUE) /\ Commanded(m.cmds, p, FALSE))
\* Rule E's clear commanded PT1T2 off and Rule N ran after it in the same
\* step, without commanding it on.
C32_Witness ==
  /\ PUMP_MIN_OFF_TIME >= 2
  /\ trace.rules = << "E", "N" >>
  /\ CommandedBy(trace.cmds, "PT1T2", FALSE, {"E"})
  /\ ~Commanded(trace.cmds, "PT1T2", TRUE)

\* C33: a BP-on step that finds PT1T2 commanded on and leaves it commanded
\* on makes its runtime strictly larger, for every snapshot and every
\* observed PT1T2 status.
C33_RuntimeNotReset ==
  alg.pump_state_PT1T2 =>
    \A temp \in Snapshots, status \in OnStatuses :
       \A m \in Steps(temp, status) :
          m.a.pump_state_PT1T2 =>
            m.a.pump_runtime_PT1T2 > alg.pump_runtime_PT1T2

\* C34: a pump command whose PLC write fails changes neither the commanded
\* state nor a dwell counter; the step goes on; and when the step has left the
\* pump in the other state, the next step with the same snapshot and status
\* (the rule's condition still true, the dwell gate still open) commands the
\* pump to that state again.
C34_FailedWriteRetried ==
  /\ \A p \in Pumps, state \in BOOLEAN :
        \A x \in set_transfer_pump(Begin(alg), p, state, "CALL") :
           ~AllWritten(x.cmds) => x.a = alg
  /\ \A temp \in Snapshots, status \in Statuses :
        ~raises_TypeError(alg, temp, status) =>
          \A m \in Steps(temp, status) :
             \A i \in 1..Len(m.cmds) :
                ( /\ ~m.cmds[i].ok
                  /\ PumpState(m.a, m.cmds[i].pump) # m.cmds[i].state
                  /\ ~raises_TypeError(m.a, temp, status) ) =>
                  \A n \in execute_algorithm(Begin(m.a), temp, status) :
                     Commanded(n.cmds, m.cmds[i].pump, m.cmds[i].state)

\* C35: logiview_ttt's main_loop exits with "Max reconnect attempts exceeded"
\* exactly when reconnect_count reaches max_reconnect_attempts + 1 = 11, which
\* is after 11 iterations without data in a row of which the 10 reconnect
\* attempts all failed; a successful reconnect or a data packet leaves
\* reconnect_count = 0 and backoff_time = 1; reconnect_count is never above 11.
C35_ReconnectLimit ==
  /\ ttt.reconnect_count <= max_reconnect_attempts + 1
  /\ (ttt.exited = Some(MaxReconnectExceeded))
        <=> (ttt.reconnect_count = max_reconnect_attempts + 1)
  /\ (ttt.exited = Some(MaxReconnectExceeded))
        => (ttt.idle = 11 /\ ttt.failed_run = 10)
  /\ (ttt.last \in { "reconnected", "data", "data lost" })
        => (ttt.reconnect_count = 0 /\ ttt.backoff_time = 1)
\* The loop has exited on the limit after it had stored rows.
C35_Witness ==
  /\ ttt.exited = Some(MaxReconnectExceeded)
  /\ ttt.reconnect_count = 11 /\ ttt.rows > 0

\* C36: backoff_time is always within 1..max_backoff; the k-th reconnect
\* attempt of a run of failed ones slept min(2^(k-1), 300) seconds, and the
\* value after it is the double of that sleep, capped at 300.
C36_Backoff ==
  /\ ttt.backoff_time >= 1 /\ ttt.backoff_time <= max_backoff
  /\ (ttt.last = "failed") =>
        /\ ttt.slept = Some(Min(2 ^ (ttt.failed_run - 1), 300))
        /\ ttt.backoff_time = Min(2 * val(ttt.slept), 300)
\* The tenth attempt in a row has failed after the capped sleep.
C36_Witness ==
  /\ ttt.last = "failed" /\ ttt.failed_run = 10
  /\ ttt.slept = Some(300) /\ ttt.backoff_time = 300

====
